---------------------------- MODULE Spec2Model ----------------------------
(***************************************************************************)
(* Tornado-Three.js: the tornado force field (Tornado), the asset loader   *)
(* (ModelLoader) and the building registry / destruction pipeline          *)
(* (BuildingSlots), as state machines.                                      *)
(*                                                                         *)
(* Units.  Lengths (positions, radii, distances) are integers in tenths of *)
(* a world unit (LengthUnit per world unit), particle heights included.   *)
(* Times are integers in ticks of 1/TicksPerSecond second; with as many    *)
(* ticks per second as tenths per unit, a speed in world units per second  *)
(* times a delta in ticks is a length in tenths.  Forces and torques are   *)
(* exact rationals <<numerator, denominator>> in world units.              *)
(*                                                                         *)
(* Object identity.  JavaScript objects that closures capture (slot        *)
(* objects, building records, loaded models, bodies) are modelled by       *)
(* references: a building record is named by the ticket of the load that   *)
(* created it, a body or visual by a tuple naming its origin.              *)
(***************************************************************************)
EXTENDS Integers, Sequences, FiniteSets, TLC

\* null / undefined: as an object reference, as a building id (a tuple) and
\* as a building type (a string)
NULL   == [cls |-> "null"]
NoId   == << >>
NoType == "null"

(***************************************************************************)
(* Bounds of the model.                                                    *)
(***************************************************************************)
NumSlots     == 1     \* slot ids 1..NumSlots
MaxSlotObjs  == 1     \* addSlot calls (slot objects ever created)
MaxLoads     == 3     \* ModelLoader.load calls (tickets)
MaxClock     == 1     \* Date.now() takes the values 0..MaxClock
MaxPieces    == 2     \* mesh pieces of a broken model: 0..MaxPieces
MaxDamageLog == 2     \* damageBuilding calls counted per record (saturating)
NumParticles == 2     \* particles created by createGeometryAndMesh
MaxUpdates   == 2     \* Tornado.update calls

(***************************************************************************)
(* Scales.                                                                 *)
(***************************************************************************)
LengthUnit     == 10           \* 0.1 world unit (the dead zone radius) is 1
TicksPerSecond == LengthUnit   \* 0.1 second is 1 tick

(***************************************************************************)
(* Exact rational arithmetic: <<n, d>> with d > 0 and gcd(n, d) = 1.       *)
(***************************************************************************)
Abs(x) == IF x < 0 THEN -x ELSE x

RECURSIVE GCD(_, _)
GCD(a, b) == IF b = 0 THEN a ELSE GCD(b, a % b)

Rat(n, d) ==
  LET s == IF d < 0 THEN -1 ELSE 1
      g == GCD(Abs(n), Abs(d))
  IN  IF n = 0 THEN <<0, 1>> ELSE <<(s * n) \div g, (s * d) \div g>>

RZero == <<0, 1>>
ROne  == <<1, 1>>

RMul(a, b) ==
  LET g1 == GCD(Abs(a[1]), b[2])
      g2 == GCD(Abs(b[1]), a[2])
  IN  IF a[1] = 0 \/ b[1] = 0 THEN RZero
      ELSE Rat((a[1] \div g1) * (b[1] \div g2), (a[2] \div g2) * (b[2] \div g1))

RDiv(a, b) == RMul(a, Rat(b[2], b[1]))

RAdd(a, b) ==
  LET g == GCD(a[2], b[2])
  IN  Rat(a[1] * (b[2] \div g) + b[1] * (a[2] \div g), (a[2] \div g) * b[2])

RNeg(a) == <<-a[1], a[2]>>
RSub(a, b) == RAdd(a, RNeg(b))
RLess(a, b) == RSub(a, b)[1] < 0

(***************************************************************************)
(* THREE.Vector3 over rationals (forces, torques) and over integers        *)
(* (positions in tenths).                                                  *)
(***************************************************************************)
Vec(x, y, z) == [x |-> x, y |-> y, z |-> z]
RVecZero == Vec(RZero, RZero, RZero)

\* Vector3.addScaledVector(v, s)
AddScaledVector(a, v, s) ==
  Vec(RAdd(a.x, RMul(v.x, s)), RAdd(a.y, RMul(v.y, s)), RAdd(a.z, RMul(v.z, s)))

\* |v|^2 of a rational vector
RLengthSq(v) == RAdd(RMul(v.x, v.x), RAdd(RMul(v.y, v.y), RMul(v.z, v.z)))

\* Vector3.sub on integer vectors
VSub(a, b) == Vec(a.x - b.x, a.y - b.y, a.z - b.z)
VAdd(a, b) == Vec(a.x + b.x, a.y + b.y, a.z + b.z)
LengthSq(v) == v.x * v.x + v.y * v.y + v.z * v.z

\* Vector3.length(): Math.sqrt of the squared length.  The query positions
\* and field centres of the model are chosen so that the root is an integer
\* number of tenths; no k exists otherwise and the evaluation fails.
RECURSIVE SqrtFrom(_, _)
SqrtFrom(n, k) ==
  LET next == (k + n \div k) \div 2
  IN  IF next >= k THEN k ELSE SqrtFrom(n, next)

Length(v) ==
  LET n == LengthSq(v)
      k == IF n = 0 THEN 0 ELSE SqrtFrom(n, n)
  IN  CHOOSE r \in {k} : r * r = n

\* Math.sin(time * 2) and Math.cos(time * 2), time in ticks, to three
\* decimals, at the sampled field times.
SinTime2(time) ==
  CASE time = 0   -> RZero
    [] time = 5   -> Rat(841, 1000)
    [] time = 10  -> Rat(909, 1000)

CosTime2(time) ==
  CASE time = 0   -> ROne
    [] time = 5   -> Rat(540, 1000)
    [] time = 10  -> Rat(-416, 1000)

(***************************************************************************)
(* Tornado.calculateForceOnObject: the analytic force model.  t is the     *)
(* Tornado object (position, maxRadius, tornadoForceStrength, time), mass  *)
(* a rational.                                                             *)
(***************************************************************************)
\* tornadoCenter = this.position.clone(); tornadoCenter.y = objectPos.y;
\* dirToCenter = tornadoCenter.clone().sub(objectPos)
DirToCenter(t, objectPos) ==
  VSub([t.position EXCEPT !.y = objectPos.y], objectPos)

\* a plausible slip: the falloff is linear, not squared
FieldForce_LinearFalloff(t, dirToCenter, distance, mass) ==
  LET dir       == Vec(Rat(dirToCenter.x, distance), Rat(dirToCenter.y, distance),
                       Rat(dirToCenter.z, distance))
      falloff   == RSub(ROne, Rat(distance, t.maxRadius))
      baseForce == RDiv(RMul(Rat(t.tornadoForceStrength, 1), falloff), mass)
      pull      == AddScaledVector(RVecZero, dir, RMul(baseForce, Rat(7, 10)))
      liftForce == RDiv(RMul(Rat(200, 1), falloff), mass)
      lifted    == [pull EXCEPT !.y = RAdd(pull.y, liftForce)]
      tangential == Vec(RNeg(dir.z), RZero, dir.x)
      force     == AddScaledVector(lifted, tangential, RMul(baseForce, Rat(5, 10)))
      torque    == Vec(RMul(SinTime2(t.time), RMul(baseForce, Rat(3, 10))),
                       RMul(baseForce, Rat(12, 10)),
                       RMul(CosTime2(t.time), RMul(baseForce, Rat(3, 10))))
  IN  [force |-> force, torque |-> torque]

\* the body of the if: force and torque inside the field
FieldForce(t, dirToCenter, distance, mass) ==
  LET dir       == Vec(Rat(dirToCenter.x, distance), Rat(dirToCenter.y, distance),
                       Rat(dirToCenter.z, distance))
      normalizedDistance == Rat(distance, t.maxRadius)
      oneMinus  == RSub(ROne, normalizedDistance)
      falloff   == RMul(oneMinus, oneMinus)
      baseForce == RDiv(RMul(Rat(t.tornadoForceStrength, 1), falloff), mass)
      pull      == AddScaledVector(RVecZero, dir, RMul(baseForce, Rat(7, 10)))
      liftForce == RDiv(RMul(Rat(200, 1), falloff), mass)
      lifted    == [pull EXCEPT !.y = RAdd(pull.y, liftForce)]
      tangential == Vec(RNeg(dir.z), RZero, dir.x)
      force     == AddScaledVector(lifted, tangential, RMul(baseForce, Rat(5, 10)))
      torque    == Vec(RMul(SinTime2(t.time), RMul(baseForce, Rat(3, 10))),
                       RMul(baseForce, Rat(12, 10)),
                       RMul(CosTime2(t.time), RMul(baseForce, Rat(3, 10))))
  IN  [force |-> force, torque |-> torque]

\* the guard of the if: distance < maxRadius && distance > 0.1
InsideField(t, distance) ==
  distance < t.maxRadius /\ distance * 10 > LengthUnit

\* a plausible slip: the dead zone is tested, the outer radius is not
calculateForceOnObject_NoRadius(t, objectPos, mass) ==
  LET dirToCenter == DirToCenter(t, objectPos)
      distance    == Length(dirToCenter)
  IN  IF distance * 10 > LengthUnit
      THEN FieldForce(t, dirToCenter, distance, mass)
      ELSE [force |-> RVecZero, torque |-> RVecZero]

\* a plausible slip: the force is not divided by the mass
calculateForceOnObject_NoMass(t, objectPos, mass) ==
  LET dirToCenter == DirToCenter(t, objectPos)
      distance    == Length(dirToCenter)
  IN  IF InsideField(t, distance)
      THEN FieldForce(t, dirToCenter, distance, ROne)
      ELSE [force |-> RVecZero, torque |-> RVecZero]

calculateForceOnObject(t, objectPos, mass) ==
  LET dirToCenter == DirToCenter(t, objectPos)
      distance    == Length(dirToCenter)
  IN  IF InsideField(t, distance)
      THEN FieldForce(t, dirToCenter, distance, mass)
      ELSE [force |-> RVecZero, torque |-> RVecZero]

(***************************************************************************)
(* State.                                                                  *)
(***************************************************************************)
VARIABLES
  now,             \* Date.now(), read by placeBuilding for the building id
  slots,           \* BuildingSlots.slots: slot id -> slot object (0: none)
  slotObjs,        \* the slot objects ever created by addSlot, in order
  slotVisuals,     \* BuildingSlots.slotVisuals: slot id -> visual (or NULL)
  buildingVisuals, \* BuildingSlots.buildingVisuals: building id -> record
  records,         \* the building records ever created: ticket -> record
  loads,           \* ModelLoader.load calls whose gltf load is in flight
  nextTicket,      \* number of ModelLoader.load calls made so far
  issued,          \* every load ever started: ticket -> what it loads
  loadedModels,    \* ModelLoader.loadedModels: the modelData pushed, in order
  scene,           \* children of the THREE.Scene
  worldBodies,     \* physicsWorld.bodies
  objPos,          \* position of every visual and body created
  visible,         \* Object3D.visible of the slot cubes
  dirty,           \* bodies whose force/torque accumulators were written
  logged,          \* tickets whose rejection reached console.error
  assets,          \* mesh pieces in each building type's broken model
  destructibles,   \* DestructibleSystem.destructibles: id -> entry
  placedThenDemolished, \* slots whose last calls were placeBuilding on the
                   \* unoccupied slot, then at once demolishBuilding
  tornado,         \* the Tornado object's fields
  particles,       \* Tornado.particles
  call,            \* the last calculateForceOnObject call and its result
  updates,         \* number of Tornado.update calls so far
  isRunning,       \* animationControl.isRunning
  lastOp           \* the operation that produced this state

vars == <<now, slots, slotObjs, slotVisuals, buildingVisuals, records, loads,
          nextTicket, issued, loadedModels, scene, worldBodies, objPos,
          visible, dirty, logged, assets, destructibles,
          placedThenDemolished, tornado, particles, call, updates, isRunning,
          lastOp>>

slotVars    == <<now, slots, slotObjs, slotVisuals, buildingVisuals, records,
                 loads, nextTicket, issued, loadedModels, scene, worldBodies,
                 objPos, visible, dirty, logged, assets, destructibles,
                 placedThenDemolished>>
(***************************************************************************)
(* Tornado: fields, particle pool, update, setParticleCount and the        *)
(* dat.gui controllers main.js binds to its fields.                        *)
(***************************************************************************)
\* this.mesh, the THREE.Points the constructor adds to the scene
TornadoMesh == [cls |-> "Points", kind |-> "tornado", ticket |-> 0, index |-> 0]

\* class fields and constructor of Tornado: position (0,0,80), maxRadius 30,
\* maxHeight 50, tornadoForceStrength 1500, time = formationTime = 0.  The
\* particleCount of 10000 is scaled to NumParticles.
TornadoFields ==
  [ particleCount        |-> NumParticles,
    maxHeight            |-> 50 * LengthUnit,
    maxRadius            |-> 30 * LengthUnit,
    position             |-> Vec(0, 0, 80 * LengthUnit),
    velocity             |-> Vec(0, 0, 0),
    tornadoForceStrength |-> 1500,
    time                 |-> 0,
    formationTime        |-> 0 ]

\* upwardSpeed = 3.0 + Math.random() * 3.0, in world units per second:
\* the slowest
UpwardSpeeds == {3}

\* randomHeight = Math.pow(Math.random(), 1.5) * maxHeight: in [0, maxHeight)
InitialHeights(maxHeight) == {0, maxHeight - 1}

\* the particle objects createGeometryAndMesh can push.  angle, phase,
\* radialPhase and the other oscillation seeds are continuous random values
\* read only to fill the vertex buffer; recycled records that update
\* re-rolled them in its last pass over the particle.
NewParticles(maxHeight) ==
  [ height      : InitialHeights(maxHeight),
    upwardSpeed : UpwardSpeeds,
    chaosFactor : {Rat(2, 1)},
    recycled    : {FALSE} ]

\* the pools createGeometryAndMesh can build: particleCount particles
NewPools(count, maxHeight) == [1..count -> NewParticles(maxHeight)]

\* progress = Math.min(formationTime / formationDuration, 1.0), with
\* formationDuration = 0.01 s
Progress(formationTime) ==
  LET p == Rat(formationTime * 100, TicksPerSecond)
  IN  IF RLess(ROne, p) THEN ROne ELSE p

\* one pass of the loop body over particle p: advance, then recycle when
\* above maxHeight or above the formation ceiling
UpdateParticle(p, delta, maxHeight, progress) ==
  LET currentCeiling == RMul(Rat(maxHeight, 1), progress)
      advanced == p.height + p.upwardSpeed * delta
      reset  == advanced > maxHeight \/ RLess(currentCeiling, Rat(advanced, 1))
  IN  [p EXCEPT !.chaosFactor = RSub(ROne, progress),
                !.height = IF reset THEN 0 ELSE advanced,
                !.recycled = reset]

\* the elapsed times update is called with, in ticks: 0, one tick, and one
\* larger than any particle's way to maxHeight
Deltas == {0, 1, 1000}

\* update's writes to the Tornado's fields: time and formationTime advance
\* by delta, position by velocity * delta
UpdatedTornado(t, delta) ==
  [t EXCEPT !.time = @ + delta,
            !.formationTime = @ + delta,
            !.position = Vec(@.x + t.velocity.x * delta,
                             @.y + t.velocity.y * delta,
                             @.z + t.velocity.z * delta)]

\* update's loop over the pool ps, with the progress of the advanced
\* formationTime
UpdatedParticles(t, ps, delta) ==
  LET progress == Progress(t.formationTime + delta)
  IN  [i \in 1..Len(ps) |->
         IF i <= t.particleCount
         THEN UpdateParticle(ps[i], delta, t.maxHeight, progress)
         ELSE ps[i]]

\* the loop reads this.particles[i] past the end of the pool
UpdateThrows(t, ps) == t.particleCount > Len(ps)

\* Tornado.update(delta).  The loop runs i over 0..particleCount-1 and reads
\* this.particles[i]: past the end of the pool the read is undefined and
\* p.chaosFactor = ... throws a TypeError, after the particles before it
\* were advanced.
Update(delta) ==
  /\ updates < MaxUpdates
  /\ tornado' = UpdatedTornado(tornado, delta)
  /\ particles' = UpdatedParticles(tornado, particles, delta)
  /\ lastOp' = [op |-> "update", delta |-> delta,
                threw |-> UpdateThrows(tornado, particles)]
  /\ updates' = updates + 1
  /\ UNCHANGED <<slotVars, call, isRunning>>

\* setParticleCount: if (newCount === this.particleCount) return
SetParticleCountReturns(t, newCount) == newCount = t.particleCount

\* Tornado.setParticleCount(newCount): rebuild the pool unless the count is
\* the current one
setParticleCount(newCount) ==
  /\ ~SetParticleCountReturns(tornado, newCount)
  /\ \E pool \in NewPools(newCount, tornado.maxHeight) :
       particles' = pool
  /\ tornado' = [tornado EXCEPT !.particleCount = newCount,
                                !.formationTime = 0, !.time = 0]
  /\ scene' = (scene \ {TornadoMesh}) \cup {TornadoMesh}
  /\ lastOp' = [op |-> "setParticleCount", count |-> newCount]
  /\ UNCHANGED <<now, slots, slotObjs, slotVisuals, buildingVisuals, records,
                 loads, nextTicket, issued, loadedModels, worldBodies, objPos,
                 visible, dirty, logged, assets, destructibles, placedThenDemolished, call,
                 updates, isRunning>>

\* the values the 'Partículas' slider is moved to (200..10000 in the
\* program, scaled like particleCount)
ParticleCounts == 1..(NumParticles + 1)

\* tornadoFolder.add(tornado, 'particleCount', ...).onChange(value =>
\* tornado.setParticleCount(Math.floor(value))): dat.gui's setValue first
\* assigns tornado.particleCount = value and then calls onChange, so
\* setParticleCount finds newCount === this.particleCount and returns.
GuiParticleCount(value) ==
  /\ value # tornado.particleCount
  /\ LET assigned == [tornado EXCEPT !.particleCount = value]
     IN  IF SetParticleCountReturns(assigned, value)
         THEN /\ tornado' = assigned
              /\ particles' = particles
         ELSE /\ \E pool \in NewPools(value, assigned.maxHeight) :
                   particles' = pool
              /\ tornado' = [assigned EXCEPT !.formationTime = 0, !.time = 0]
  /\ lastOp' = [op |-> "guiParticleCount", count |-> value]
  /\ UNCHANGED <<slotVars, call, updates, isRunning>>

\* tornadoFolder.add(tornado, 'maxHeight', 30, 50, 10)
MaxHeights == {30 * LengthUnit, 40 * LengthUnit, 50 * LengthUnit}

GuiMaxHeight(value) ==
  /\ value # tornado.maxHeight
  /\ tornado' = [tornado EXCEPT !.maxHeight = value]
  /\ lastOp' = [op |-> "guiMaxHeight", value |-> value]
  /\ UNCHANGED <<slotVars, particles, call, updates, isRunning>>

\* tornadoFolder.add(tornado, 'maxRadius', 10, 30, 5): values it is set to
MaxRadii == {10 * LengthUnit, 20 * LengthUnit, 30 * LengthUnit}

GuiMaxRadius(value) ==
  /\ value # tornado.maxRadius
  /\ tornado' = [tornado EXCEPT !.maxRadius = value]
  /\ lastOp' = [op |-> "guiMaxRadius", value |-> value]
  /\ UNCHANGED <<slotVars, particles, call, updates, isRunning>>

(***************************************************************************)
(* Objects of the scene graph and of the physics world.  A reference names *)
(* the object's class, what made it, the load ticket (or slot object) it   *)
(* came from and, for a mesh piece, its index in the broken model.         *)
(***************************************************************************)
Obj(cls, kind, ticket, index) ==
  [cls |-> cls, kind |-> kind, ticket |-> ticket, index |-> index]

ModelVisual(t)  == Obj("Object3D", "model", t, 0)   \* gltf.scene of load t
ModelBody(t)    == Obj("Body", "model", t, 0)       \* createPhysicsBody of load t
PieceMesh(t, i) == Obj("Mesh", "piece", t, i)       \* i-th mesh of gltf.scene
PieceBody(t, i) == Obj("Body", "piece", t, i)       \* the CANNON.Body made for it
SlotCube(ref)   == Obj("Mesh", "slot", ref, 0)      \* the cube addSlot creates

\* reading a property a JavaScript object may lack gives undefined
Prop(obj, name) == IF name \in DOMAIN obj THEN obj[name] ELSE NULL

SlotIds == 1..NumSlots

\* main.js: buildingSlots.addBuilding('Casa', {intact, cracked}, {debrisMass: 2})
BuildingTypes == {"Casa"}
\* a type no addBuilding registered
PlaceTypes == BuildingTypes \cup {"Torre"}

\* addBuilding: debrisMass: options.debrisMass || 0.5, with main.js's 2
buildings ==
  [type \in BuildingTypes |->
     [intact |-> <<type, "intact">>, cracked |-> <<type, "cracked">>,
      debrisMass |-> Rat(2, 1)]]

\* this.damageThreshold = 30
damageThreshold == 30

\* main.js: addSlot(`slot_${i}_${j}`, [-34 + i * 17, 0.4, -37 + j * 10]);
\* the slot i = 2, j = 3
SlotPositions == {Vec(0, 4, -70)}

\* where the field centre stands: its initial position (0, 0, 80), out of
\* reach of the slot, and a position 27 units from it
TornadoPositions == {Vec(0, 0, 80 * LengthUnit), Vec(0, 0, 20 * LengthUnit)}

\* content of a broken model: the local position of the i-th mesh (its
\* pivot) and the centre of its geometry's bounding box
PiecePivot(i)  == Vec(10 * i, 0, 0)
PieceCenter(i) == Vec(0, 5 * i, 5)

\* main.js: placer.addAsset('Coche', ..., {mass: 5}) and
\* placer.addAsset('Poste de Luz', ..., {mass: 2}); addAsset stores
\* mass: options.mass || 2
placerAssets ==
  [name \in {"Coche", "Poste de Luz"} |->
     [path |-> <<name, "item">>,
      mass |-> IF name = "Coche" THEN Rat(5, 1) ELSE Rat(2, 1)]]

AllBuildingIds ==
  {<<s, type, c>> : s \in SlotIds, type \in BuildingTypes, c \in 0..MaxClock}

(***************************************************************************)
(* The state the BuildingSlots and ModelLoader methods read and write, as  *)
(* one value, so that a method that calls another composes.                *)
(***************************************************************************)
Cur ==
  [ slotObjs |-> slotObjs, buildingVisuals |-> buildingVisuals,
    records |-> records, loads |-> loads, nextTicket |-> nextTicket,
    issued |-> issued, loadedModels |-> loadedModels, scene |-> scene,
    worldBodies |-> worldBodies, objPos |-> objPos, visible |-> visible,
    dirty |-> dirty, logged |-> logged ]

Commit(S) ==
  /\ slotObjs' = S.slotObjs
  /\ buildingVisuals' = S.buildingVisuals
  /\ records' = S.records
  /\ loads' = S.loads
  /\ nextTicket' = S.nextTicket
  /\ issued' = S.issued
  /\ loadedModels' = S.loadedModels
  /\ scene' = S.scene
  /\ worldBodies' = S.worldBodies
  /\ objPos' = S.objPos
  /\ visible' = S.visible
  /\ dirty' = S.dirty
  /\ logged' = S.logged

\* CANNON.World.removeBody(body): the body leaves world.bodies when it is
\* there; an object that is not in world.bodies leaves them unchanged
RemoveBody(world, body) == world \ {body}

\* ModelLoader.load(path, options): the call; the gltf load is in flight
Load(S, request) ==
  LET t == S.nextTicket + 1
  IN  [S EXCEPT !.nextTicket = t,
                !.loads = @ \cup {[request EXCEPT !.ticket = t]},
                !.issued = Append(@, [kind |-> request.kind, rec |-> request.rec,
                                       path |-> request.path])]

Request(kind, path, position, slot, slotId, id, rec) ==
  [ticket |-> 0, kind |-> kind, path |-> path, position |-> position,
   slot |-> slot, slotId |-> slotId, id |-> id, rec |-> rec]

\* the modelData ModelLoader.load hands to onLoad: {visual, physics, path}
ModelData(ld) ==
  [visual |-> ModelVisual(ld.ticket), physics |-> ModelBody(ld.ticket),
   path |-> ld.path]

\* ModelLoader.load, the gltf callback up to the onLoad call: the model is
\* positioned and added to the scene, its body created and added to the
\* world, the modelData pushed
LoaderLoaded(S, ld) ==
  [S EXCEPT !.loads = @ \ {ld},
            !.scene = @ \cup {ModelVisual(ld.ticket)},
            !.worldBodies = @ \cup {ModelBody(ld.ticket)},
            !.loadedModels = Append(@, ld.ticket),
            !.objPos = (ModelVisual(ld.ticket) :> ld.position)
                         @@ (ModelBody(ld.ticket) :> ld.position) @@ @]

(***************************************************************************)
(* BuildingSlots.                                                          *)
(***************************************************************************)
\* addSlot: the slot object stored in this.slots[slotId]
NewSlot(position) ==
  [position |-> position, size |-> 1, occupied |-> FALSE,
   buildingType |-> NoType, buildingId |-> NoId]

\* a plausible slip: the slot is marked free, its buildingId kept
FreeSlot_KeepsId(slot) ==
  [slot EXCEPT !.occupied = FALSE, !.buildingType = NoType]

\* demolishBuilding: slot.occupied = false; buildingType = buildingId = null
FreeSlot(slot) ==
  [slot EXCEPT !.occupied = FALSE, !.buildingType = NoType,
               !.buildingId = NoId]

\* placeBuilding's onLoad: slot.occupied = true; buildingType; buildingId
OccupySlot(slot, buildingType, buildingId) ==
  [slot EXCEPT !.occupied = TRUE, !.buildingType = buildingType,
               !.buildingId = buildingId]

\* placeBuilding's onLoad: the record stored in buildingVisuals[buildingId].
\* damageCalls and demolished are history: the damageBuilding calls that
\* found the record registered, and whether demolishBuilding removed it.
BuildingRecord(ld, modelData) ==
  [ visual |-> modelData.visual,
    body |-> Prop(modelData, "body"),
    type |-> ld.path[1],
    slotId |-> ld.slotId,
    intact |-> buildings[ld.path[1]].intact,
    cracked |-> buildings[ld.path[1]].cracked,
    damaged |-> FALSE,
    crackedBodies |-> << >>,
    originalPosition |-> ld.position,
    id |-> ld.id,
    damageCalls |-> 0,
    demolished |-> FALSE ]

\* placeBuilding's onLoad callback
PlaceOnLoad(S, ld, modelData) ==
  [S EXCEPT !.records = (ld.ticket :> BuildingRecord(ld, modelData)) @@ @,
            !.buildingVisuals = (ld.id :> ld.ticket) @@ @,
            !.slotObjs[ld.slot] = OccupySlot(@, ld.path[1], ld.id),
            !.visible[slotVisuals[ld.slotId]] = FALSE]

\* a plausible slip: demolition also puts the record back to intact
RemoveBuilding_ResetsRecord(S, id) ==
  LET r        == S.buildingVisuals[id]
      building == S.records[r]
      passed   == {building.crackedBodies[i] : i \in DOMAIN building.crackedBodies}
  IN  [S EXCEPT !.scene = @ \ {building.visual},
                !.worldBodies = @ \ passed,
                !.buildingVisuals = [k \in DOMAIN @ \ {id} |-> @[k]],
                !.records[r].demolished = TRUE,
                !.records[r].damaged = FALSE]

\* demolishBuilding, the if (building) block: the visual leaves the scene,
\* building.body and every element of building.crackedBodies are passed to
\* removeBody, the registry entry is deleted
RemoveBuilding(S, id) ==
  LET r        == S.buildingVisuals[id]
      building == S.records[r]
      noBody   == IF building.body # NULL
                  THEN RemoveBody(S.worldBodies, building.body)
                  ELSE S.worldBodies
      passed   == {building.crackedBodies[i] : i \in DOMAIN building.crackedBodies}
  IN  [S EXCEPT !.scene = @ \ {building.visual},
                !.worldBodies = noBody \ passed,
                !.buildingVisuals = [k \in DOMAIN @ \ {id} |-> @[k]],
                !.records[r].demolished = TRUE]

\* the record demolishBuilding(slotId) takes out of the registry (0: none)
Removed(S, slotId) ==
  LET slot == S.slotObjs[slots[slotId]]
  IN  IF slot.occupied /\ slot.buildingId # NoId
         /\ slot.buildingId \in DOMAIN S.buildingVisuals
      THEN S.buildingVisuals[slot.buildingId]
      ELSE 0

\* demolishBuilding(slotId), slotId a slot that was added
Demolish(S, slotId) ==
  LET ref  == slots[slotId]
      slot == S.slotObjs[ref]
  IN  IF ~slot.occupied \/ slot.buildingId = NoId
      THEN S
      ELSE LET S1 == IF slot.buildingId \in DOMAIN S.buildingVisuals
                     THEN RemoveBuilding(S, slot.buildingId)
                     ELSE S
           IN  [S1 EXCEPT !.slotObjs[ref] = FreeSlot(@),
                          !.visible[slotVisuals[slotId]] = TRUE]

\* a plausible slip: the guard tests only that the building is registered
DamageReturnsEarly_Unguarded(S, buildingId) ==
  buildingId \notin DOMAIN S.buildingVisuals

\* damageBuilding: if (!building || building.damaged) return
DamageReturnsEarly(S, buildingId) ==
  \/ buildingId \notin DOMAIN S.buildingVisuals
  \/ S.records[S.buildingVisuals[buildingId]].damaged

\* damageBuilding(buildingId) up to the load call: the building is marked
\* damaged, its visual and its body leave scene and world, the broken model
\* is requested at the visual's position
Damage(S, buildingId) ==
  IF buildingId \notin DOMAIN S.buildingVisuals THEN S
  ELSE
    LET r        == S.buildingVisuals[buildingId]
        building == S.records[r]
        counted  == [S EXCEPT !.records[r].damageCalls =
                                 IF @ < MaxDamageLog THEN @ + 1 ELSE @]
    IN  IF DamageReturnsEarly(S, buildingId) THEN counted
        ELSE Load([counted EXCEPT
                     !.records[r].damaged = TRUE,
                     !.scene = @ \ {building.visual},
                     !.worldBodies = IF building.body # NULL
                                     THEN RemoveBody(@, building.body) ELSE @],
                  Request("cracked", building.cracked,
                          S.objPos[building.visual], 0, building.slotId,
                          buildingId, r))

\* damageBuilding's onLoad, per mesh piece: where the re-centred mesh goes
\* (pivot + centre offset, orientation being the identity of a static
\* building) and the 0.2 it is lifted by; the body copies the mesh position
PiecePosition(position, i) ==
  VAdd(VAdd(VAdd(position, PiecePivot(i)), PieceCenter(i)), Vec(0, 2, 0))

\* damageBuilding's onLoad callback: the broken model becomes the visual,
\* crackedData.body is removed when there is one, every mesh of the model
\* is re-centred, moved to the scene root and given a body
DamageOnLoad(S, ld, crackedData) ==
  LET t      == ld.ticket
      n      == assets[ld.path[1]]
      pieces == [i \in 1..n |-> [mesh |-> PieceMesh(t, i), body |-> PieceBody(t, i)]]
      piecePos == [o \in {PieceMesh(t, i) : i \in 1..n} \cup
                         {PieceBody(t, i) : i \in 1..n} |->
                     PiecePosition(ld.position, o.index)]
  IN  [S EXCEPT !.records[ld.rec].visual = crackedData.visual,
                !.records[ld.rec].crackedBodies = pieces,
                !.worldBodies =
                   (IF Prop(crackedData, "body") # NULL
                    THEN RemoveBody(@, Prop(crackedData, "body")) ELSE @)
                   \cup {PieceBody(t, i) : i \in 1..n},
                !.scene = @ \cup {PieceMesh(t, i) : i \in 1..n},
                !.objPos = piecePos @@ @]

\* applyTornadoForces: distance = buildingPos.distanceTo(tornadoPos);
\* distance < this.damageThreshold
WithinThreshold(buildingPos, tornadoPos) ==
  LengthSq(VSub(buildingPos, tornadoPos))
    < (damageThreshold * LengthUnit) * (damageThreshold * LengthUnit)

\* applyTornadoForces, the debris loop of one building: every piece with a
\* body has lift and horizontal force applied and a random amount added to
\* torque.x and torque.y, so its accumulators are written
MoveDebris(S, building) ==
  [S EXCEPT !.dirty = @ \cup
     {building.crackedBodies[i].body : i \in DOMAIN building.crackedBodies}]

\* applyTornadoForces, one entry of Object.entries(this.buildingVisuals)
ScanOne(S, id) ==
  LET r  == buildingVisuals[id]
      b  == S.records[r]
      S1 == IF ~b.damaged /\ WithinThreshold(S.objPos[b.visual], tornado.position)
            THEN Damage(S, id)
            ELSE S
      b1 == S1.records[r]
  IN  IF b1.damaged /\ Len(b1.crackedBodies) > 0
      THEN MoveDebris(S1, b1)
      ELSE S1

RECURSIVE ScanAll(_, _)
ScanAll(S, ids) ==
  IF ids = {} THEN S
  ELSE LET id == CHOOSE i \in ids : TRUE
       IN  ScanAll(ScanOne(S, id), ids \ {id})

\* (Math.random() - 0.5) * 10, for torque.x and torque.y: values in (-5, 5)
RandomTorques ==
  {Vec(Rat(-4, 1), Rat(3, 1), RZero), Vec(Rat(2, 1), Rat(-1, 1), RZero)}

\* applyTornadoForces, the debris loop, what is done to one fragment body:
\* calculateForceOnObject(body.position, body.mass), body.applyForce(lift,
\* body.position), body.applyForce(horizontal, body.position), and rnd
\* added to torque.x and torque.y; the torque of the result is not used
DebrisApplication(S, building, body, rnd) ==
  [ body |-> body,
    objectPos |-> S.objPos[body],
    mass |-> buildings[building.type].debrisMass,
    liftApplied |-> TRUE,
    liftAt |-> S.objPos[body],
    horizontalApplied |-> TRUE,
    horizontalAt |-> S.objPos[body],
    addsResultTorque |-> FALSE,
    extraTorque |-> rnd ]

\* the debris loop over the registry as the scan left it: every fragment
\* of every registered building that is damaged and has fragments
DebrisApplications(S, rnd) ==
  UNION {LET b == S.records[S.buildingVisuals[id]]
         IN  IF b.damaged /\ Len(b.crackedBodies) > 0
             THEN {DebrisApplication(S, b, b.crackedBodies[i].body, rnd) :
                     i \in DOMAIN b.crackedBodies}
             ELSE {} :
         id \in DOMAIN S.buildingVisuals}

(***************************************************************************)
(* Operations of BuildingSlots, the load completions and the clock.        *)
(***************************************************************************)
\* addSlot(slotId, position)
AddSlot(slotId, position) ==
  /\ Len(slotObjs) < MaxSlotObjs
  /\ LET ref == Len(slotObjs) + 1
     IN  /\ slotObjs' = Append(slotObjs, NewSlot(position))
         /\ slots' = [slots EXCEPT ![slotId] = ref]
         /\ slotVisuals' = [slotVisuals EXCEPT ![slotId] = SlotCube(ref)]
         /\ scene' = scene \cup {SlotCube(ref)}
         /\ objPos' = (SlotCube(ref) :> position) @@ objPos
         /\ visible' = (SlotCube(ref) :> TRUE) @@ visible
  /\ placedThenDemolished' = placedThenDemolished \ {slotId}
  /\ lastOp' = [op |-> "addSlot", slotId |-> slotId]
  /\ UNCHANGED <<now, buildingVisuals, records, loads, nextTicket, issued,
                 loadedModels, worldBodies, dirty, logged, assets, destructibles,
                 tornado, particles, call, updates, isRunning>>

\* placeBuilding(slotId, buildingType).  With a slotId no addSlot stored,
\* slot is undefined and slot.occupied throws a TypeError.
PlaceBuilding(slotId, buildingType) ==
  IF slots[slotId] = 0
  THEN /\ lastOp' = [op |-> "placeBuilding", slotId |-> slotId, threw |-> TRUE,
                     unoccupied |-> FALSE, started |-> FALSE]
       /\ UNCHANGED <<slotVars, tornado, particles, call, updates, isRunning>>
  ELSE
    LET slot == slotObjs[slots[slotId]]
        S0 == IF slot.occupied THEN Demolish(Cur, slotId) ELSE Cur
        registered == buildingType \in DOMAIN buildings
        S1 == IF ~registered THEN S0
              ELSE Load(S0, Request("intact", buildings[buildingType].intact,
                                    slot.position, slots[slotId], slotId,
                                    <<slotId, buildingType, now>>, 0))
    IN  /\ S1.nextTicket <= MaxLoads
        /\ Commit(S1)
        /\ placedThenDemolished' = placedThenDemolished \ {slotId}
        /\ lastOp' = [op |-> "placeBuilding", slotId |-> slotId, threw |-> FALSE,
                      unoccupied |-> ~slot.occupied, started |-> registered]
        /\ UNCHANGED <<now, slots, slotVisuals, assets, destructibles, tornado, particles,
                       call, updates, isRunning>>

\* demolishBuilding(slotId).  With a slotId no addSlot stored, slot.occupied
\* throws a TypeError.
DemolishBuilding(slotId) ==
  IF slots[slotId] = 0
  THEN /\ lastOp' = [op |-> "demolishBuilding", slotId |-> slotId, threw |-> TRUE,
                     removed |-> 0]
       /\ UNCHANGED <<slotVars, tornado, particles, call, updates, isRunning>>
  ELSE
    /\ Commit(Demolish(Cur, slotId))
    /\ placedThenDemolished' =
         IF /\ lastOp.op = "placeBuilding"
            /\ lastOp.slotId = slotId
            /\ lastOp.unoccupied
            /\ lastOp.started
         THEN placedThenDemolished \cup {slotId}
         ELSE placedThenDemolished
    /\ lastOp' = [op |-> "demolishBuilding", slotId |-> slotId, threw |-> FALSE,
                  removed |-> Removed(Cur, slotId)]
    /\ UNCHANGED <<now, slots, slotVisuals, assets, destructibles, tornado, particles, call,
                   updates, isRunning>>

\* damageBuilding(buildingId), called directly
DamageBuilding(buildingId) ==
  LET S1 == Damage(Cur, buildingId)
  IN  /\ S1.nextTicket <= MaxLoads
      /\ Commit(S1)
      /\ lastOp' = [op |-> "damageBuilding", id |-> buildingId]
      /\ UNCHANGED <<now, slots, slotVisuals, assets, destructibles, placedThenDemolished,
                     tornado, particles, call, updates, isRunning>>

\* applyTornadoForces(): the proximity scan and the debris loop, over
\* every entry of buildingVisuals
ApplyTornadoForces ==
  \E S1 \in {ScanAll(Cur, DOMAIN buildingVisuals)}, rnd \in RandomTorques :
    /\ S1.nextTicket <= MaxLoads
    /\ Commit(S1)
    /\ lastOp' = [op |-> "applyTornadoForces",
                  applications |-> DebrisApplications(S1, rnd)]
    /\ UNCHANGED <<now, slots, slotVisuals, assets, destructibles, placedThenDemolished,
                   tornado, particles, call, updates, isRunning>>

\* where an asset is placed: the clicked point of the ground, raised by 5
AssetPositions == {Vec(250, 50, 255)}

\* PlacementSystem.placeAsset(assetName), a position being selected: the
\* asset's model is loaded with its mass at the position
PlaceAsset(assetName, position) ==
  LET S1 == Load(Cur, Request("asset", placerAssets[assetName].path, position,
                              0, 0, NoId, 0))
  IN  /\ S1.nextTicket <= MaxLoads
      /\ Commit(S1)
      /\ lastOp' = [op |-> "placeAsset", name |-> assetName]
      /\ UNCHANGED <<now, slots, slotVisuals, assets, destructibles, placedThenDemolished,
                     tornado, particles, call, updates, isRunning>>

(***************************************************************************)
(* DestructibleSystem.                                                     *)
(***************************************************************************)
\* the ids of main.js's examples, and an id no addDestructible registers
DestructibleIds == {"edificio_1", "edificio_2"}
\* this.destructibles = {}: a key Object.prototype defines reads as a
\* value that is not a destructible
InheritedKeys == {"constructor"}
OperatedIds == DestructibleIds \cup {"edificio_3"} \cup InheritedKeys

\* main.js's example position [20, 5, 0]
DestructiblePositions == {Vec(200, 50, 0)}

\* model loads addDestructible calls may start
MaxDestructibleLoads == 4

\* the addDestructible calls waiting for their intact model: each has its
\* broken model still to load
AwaitingIntact(S) == Cardinality({ld \in S.loads : ld.kind = "destructibleIntact"})

\* addDestructible(id, intactPath, brokenPath, position), up to its first
\* await: modelLoader.load(intactPath, {mass: 0, position})
AddDestructible(id, position) ==
  LET S1 == Load(Cur, Request("destructibleIntact", <<id, "intact">>, position,
                              0, 0, id, 0))
  IN  /\ S1.nextTicket + AwaitingIntact(S1) <= MaxDestructibleLoads
      /\ Commit(S1)
      /\ lastOp' = [op |-> "addDestructible", id |-> id]
      /\ UNCHANGED <<now, slots, slotVisuals, assets, destructibles,
                     placedThenDemolished, tornado, particles, call, updates,
                     isRunning>>

\* addDestructible resumed with intactData: modelLoader.load(brokenPath,
\* {mass: 3, position}); rec remembers the intact model's load
IntactLoaded(S, ld) ==
  Load(S, Request("destructibleBroken", <<ld.id, "broken">>, ld.position,
                  0, 0, ld.id, ld.ticket))

\* addDestructible resumed with brokenData: brokenData.visual.visible = false
BrokenLoaded(S, ld) ==
  [S EXCEPT !.visible = (ModelVisual(ld.ticket) :> FALSE) @@ @]

\* this.destructibles[id] = {intactData, brokenData, state: 'intact', position}
DestructibleEntry(ld) ==
  [intactData |-> [visual |-> ModelVisual(ld.rec), physics |-> ModelBody(ld.rec)],
   brokenData |-> [visual |-> ModelVisual(ld.ticket),
                   physics |-> ModelBody(ld.ticket)],
   state |-> "intact", position |-> ld.position]

\* Object3D.visible: true unless it was assigned
IsVisible(vis, obj) == IF obj \in DOMAIN vis THEN vis[obj] ELSE TRUE

\* a plausible slip: the models are swapped, the state left as it was
Destroy_KeepsState(id) ==
  LET known == id \in DOMAIN destructibles
      acts == known /\ destructibles[id].state # "destroyed"
  IN  /\ visible' = IF acts
                    THEN (destructibles[id].intactData.visual :> FALSE)
                           @@ (destructibles[id].brokenData.visual :> TRUE)
                           @@ visible
                    ELSE visible
      /\ lastOp' = [op |-> "destroy", id |-> id, known |-> known,
                    was |-> IF known THEN destructibles[id].state ELSE NoType,
                    threw |-> ~known /\ id \in InheritedKeys]
      /\ UNCHANGED <<now, slots, slotObjs, slotVisuals, buildingVisuals, records,
                     loads, nextTicket, issued, loadedModels, scene,
                     worldBodies, objPos, dirty, logged, assets, destructibles,
                     placedThenDemolished, tornado, particles, call, updates,
                     isRunning>>

\* destroy(id): nothing for an id that is not registered or a destructible
\* already destroyed; else the intact visual is hidden, the broken one
\* shown, state = 'destroyed'.  An inherited key passes both returns and
\* the read of intactData.visual throws before anything is written.
Destroy(id) ==
  LET known == id \in DOMAIN destructibles
      acts == known /\ destructibles[id].state # "destroyed"
  IN  /\ visible' = IF acts
                    THEN (destructibles[id].intactData.visual :> FALSE)
                           @@ (destructibles[id].brokenData.visual :> TRUE)
                           @@ visible
                    ELSE visible
      /\ destructibles' = IF acts
                          THEN [destructibles EXCEPT ![id].state = "destroyed"]
                          ELSE destructibles
      /\ lastOp' = [op |-> "destroy", id |-> id, known |-> known,
                    was |-> IF known THEN destructibles[id].state ELSE NoType,
                    threw |-> ~known /\ id \in InheritedKeys]
      /\ UNCHANGED <<now, slots, slotObjs, slotVisuals, buildingVisuals, records,
                     loads, nextTicket, issued, loadedModels, scene,
                     worldBodies, objPos, dirty, logged, assets,
                     placedThenDemolished, tornado, particles, call, updates,
                     isRunning>>

\* repair(id): nothing for an id that is not registered; else the intact
\* visual is shown, the broken one hidden, state = 'intact'.  An inherited
\* key passes the return and the read of intactData.visual throws.
Repair(id) ==
  LET known == id \in DOMAIN destructibles
  IN  /\ visible' = IF known
                    THEN (destructibles[id].intactData.visual :> TRUE)
                           @@ (destructibles[id].brokenData.visual :> FALSE)
                           @@ visible
                    ELSE visible
      /\ destructibles' = IF known
                          THEN [destructibles EXCEPT ![id].state = "intact"]
                          ELSE destructibles
      /\ lastOp' = [op |-> "repair", id |-> id, known |-> known,
                    was |-> IF known THEN destructibles[id].state ELSE NoType,
                    threw |-> ~known /\ id \in InheritedKeys]
      /\ UNCHANGED <<now, slots, slotObjs, slotVisuals, buildingVisuals, records,
                     loads, nextTicket, issued, loadedModels, scene,
                     worldBodies, objPos, dirty, logged, assets,
                     placedThenDemolished, tornado, particles, call, updates,
                     isRunning>>

\* the gltf load of ld succeeds: ModelLoader's callback, then the caller's
\* onLoad (placeBuilding's or damageBuilding's; placeAsset's only logs) or
\* the addDestructible call that awaits the load
LoadComplete(ld) ==
  LET S1 == LoaderLoaded(Cur, ld)
      S2 == IF ld.kind = "intact"
            THEN PlaceOnLoad(S1, ld, ModelData(ld))
            ELSE IF ld.kind = "cracked"
            THEN DamageOnLoad(S1, ld, ModelData(ld))
            ELSE IF ld.kind = "destructibleIntact"
            THEN IntactLoaded(S1, ld)
            ELSE IF ld.kind = "destructibleBroken"
            THEN BrokenLoaded(S1, ld)
            ELSE S1
  IN  /\ Commit(S2)
      /\ destructibles' = IF ld.kind = "destructibleBroken"
                          THEN (ld.id :> DestructibleEntry(ld)) @@ destructibles
                          ELSE destructibles
      /\ lastOp' = [op |-> "loadComplete", ticket |-> ld.ticket]
      /\ UNCHANGED <<now, slots, slotVisuals, assets, placedThenDemolished,
                     tornado, particles, call, updates, isRunning>>

\* the gltf load of ld fails: the promise is rejected.  placeBuilding's
\* catch does nothing; damageBuilding's catch calls console.error.
LoadFail(ld) ==
  /\ loads' = loads \ {ld}
  /\ logged' = IF ld.kind = "cracked" THEN logged \cup {ld.ticket} ELSE logged
  /\ lastOp' = [op |-> "loadFail", ticket |-> ld.ticket]
  /\ UNCHANGED <<now, slots, slotObjs, slotVisuals, buildingVisuals, records,
                 nextTicket, issued, loadedModels, scene, worldBodies, objPos,
                 visible, dirty, assets, destructibles, placedThenDemolished, tornado,
                 particles, call, updates, isRunning>>

\* a millisecond passes: Date.now() advances
Tick ==
  /\ now < MaxClock
  /\ now' = now + 1
  /\ lastOp' = [op |-> "tick"]
  /\ UNCHANGED <<slots, slotObjs, slotVisuals, buildingVisuals, records, loads,
                 nextTicket, issued, loadedModels, scene, worldBodies, objPos,
                 visible, dirty, logged, assets, destructibles, placedThenDemolished, tornado,
                 particles, call, updates, isRunning>>

(***************************************************************************)
(* The frame loop: main.js's animate and the calls it makes, each a        *)
(* function of the frame's state; steps lists the calls in the order they  *)
(* were made.                                                              *)
(***************************************************************************)
Frame(S, t, ps) ==
  [S |-> S, tornado |-> t, particles |-> ps, steps |-> << >>, threw |-> FALSE]

Did(F, step) == [F EXCEPT !.steps = Append(@, step)]

\* controls.update(delta): the camera moves by moveSpeed * delta along the
\* keys held; no object of scene or world is written
ControlsUpdate(F, delta) == Did(F, "controls.update")

\* body.mass: fragment bodies are created with mass debrisMass, the bodies
\* of the intact and of the broken model with mass: 0, the body of a placed
\* asset with the asset's mass, a destructible's broken model with mass: 3
BodyMass(body) ==
  LET made == issued[body.ticket]
  IN  IF body.kind = "piece" THEN buildings[made.path[1]].debrisMass
      ELSE IF made.kind = "asset" THEN placerAssets[made.path[1]].mass
      ELSE IF made.kind = "destructibleBroken" THEN Rat(3, 1)
      ELSE RZero

\* mass > 0
BodyIsDynamic(body) == BodyMass(body)[1] > 0

\* what one fixed step of the engine does to a dynamic body: it falls
BodyFall == Vec(0, -1, 0)

\* physicsWorld.step(1 / 60, delta): fixed steps are run while the
\* accumulated delta covers them, none for delta = 0; a step integrates
\* every dynamic body of the world and clears the force accumulators
PhysicsStep(F, delta) ==
  IF delta = 0 THEN Did(F, "physicsWorld.step")
  ELSE Did([F EXCEPT
              !.S.objPos = [o \in DOMAIN @ |->
                              IF o \in F.S.worldBodies /\ BodyIsDynamic(o)
                              THEN VAdd(@[o], BodyFall) ELSE @[o]],
              !.S.dirty = {}],
           "physicsWorld.step")

\* ModelLoader.updateModels(): every loaded model's visual copies the
\* position of its physics body
UpdateModels(F) ==
  LET loaded == {F.S.loadedModels[k] : k \in DOMAIN F.S.loadedModels}
  IN  Did([F EXCEPT
             !.S.objPos = [o \in DOMAIN @ |->
                             IF o.kind = "model" /\ o.cls = "Object3D"
                                /\ o.ticket \in loaded
                             THEN @[ModelBody(o.ticket)] ELSE @[o]]],
          "modelLoader.updateModels")

\* the point 0.8 above the body's position
HorizontalOffset == Vec(0, 8, 0)

\* ModelLoader.applyTornadoForces, what is done to one loaded model's
\* body: calculateForceOnObject(physics.position.clone(), physics.mass);
\* when the force is not zero, the lift (if not zero) is applied at
\* physics.position, the horizontal part (if not zero) at physics.position
\* + (0, 0.8, 0), and the result's torque is added to physics.torque
ModelApplication(t, S, body) ==
  LET result  == calculateForceOnObject(t, S.objPos[body], BodyMass(body))
      nonzero == result.force # RVecZero
  IN  [ body |-> body,
        objectPos |-> S.objPos[body],
        mass |-> BodyMass(body),
        liftApplied |-> nonzero /\ result.force.y # RZero,
        liftAt |-> S.objPos[body],
        horizontalApplied |->
          nonzero /\ (result.force.x # RZero \/ result.force.z # RZero),
        horizontalAt |-> VAdd(S.objPos[body], HorizontalOffset),
        addsResultTorque |-> nonzero,
        extraTorque |-> RVecZero ]

\* the forEach of ModelLoader.applyTornadoForces: the loaded models whose
\* body has mass > 0
ModelApplications(t, S) ==
  {ModelApplication(t, S, b) :
     b \in {m \in {ModelBody(S.loadedModels[k]) : k \in DOMAIN S.loadedModels} :
              BodyIsDynamic(m)}}

\* ModelLoader.applyTornadoForces(tornado): the accumulators of the bodies
\* something was applied to are written
ModelForces(F) ==
  LET loaded == {F.S.loadedModels[k] : k \in DOMAIN F.S.loadedModels}
      pushed == {b \in {ModelBody(t) : t \in loaded} :
                   /\ BodyIsDynamic(b)
                   /\ calculateForceOnObject(F.tornado, F.S.objPos[b],
                                             BodyMass(b)).force # RVecZero}
  IN  Did([F EXCEPT !.S.dirty = @ \cup pushed],
          "modelLoader.applyTornadoForces")

\* modelLoader.applyTornadoForces(tornado), the call
ModelApplyTornadoForces ==
  \E F \in {ModelForces(Frame(Cur, tornado, particles))} :
    /\ Commit(F.S)
    /\ lastOp' = [op |-> "modelApplyTornadoForces",
                  applications |-> ModelApplications(tornado, Cur)]
    /\ UNCHANGED <<now, slots, slotVisuals, assets, destructibles, placedThenDemolished,
                   tornado, particles, call, updates, isRunning>>

\* buildingSlots.applyTornadoForces()
BuildingForces(F) ==
  Did([F EXCEPT !.S = ScanAll(@, DOMAIN @.buildingVisuals)],
      "buildingSlots.applyTornadoForces")

\* BuildingSlots.update(): over Object.values(this.buildingVisuals), every
\* part of a damaged building's crackedBodies has its mesh copy the body's
\* position; an undamaged building with a body has its visual copy it
BuildingsUpdate(F) ==
  LET S     == F.S
      regs  == {S.records[S.buildingVisuals[id]] : id \in DOMAIN S.buildingVisuals}
      parts == UNION {{b.crackedBodies[i] : i \in DOMAIN b.crackedBodies} :
                        b \in {x \in regs : x.damaged}}
      whole == {b \in regs : ~b.damaged /\ b.body # NULL}
  IN  Did([F EXCEPT
             !.S.objPos = [o \in DOMAIN @ |->
                IF \E part \in parts : part.mesh = o
                THEN @[(CHOOSE part \in parts : part.mesh = o).body]
                ELSE IF \E b \in whole : b.visual = o
                THEN @[(CHOOSE b \in whole : b.visual = o).body]
                ELSE @[o]]],
          "buildingSlots.update")

\* tornado.update(delta)
TornadoUpdate(F, delta) ==
  Did([F EXCEPT !.tornado = UpdatedTornado(@, delta),
                !.particles = UpdatedParticles(F.tornado, @, delta),
                !.threw = UpdateThrows(F.tornado, F.particles)],
      "tornado.update")

\* renderer.render(scene, camera)
Render(F) == Did(F, "renderer.render")

\* animate, the branch taken when animationControl.isRunning is false.
\* Each call is made on the state x the calls before it left.
PausedFrame(F, delta) ==
  LET F1 == CHOOSE G \in {ControlsUpdate(x, delta) : x \in {F}} : TRUE
  IN  CHOOSE G \in {Render(x) : x \in {F1}} : TRUE

\* animate with animationControl.isRunning true; when tornado.update throws
\* the frame ends there
RunningFrame(F, delta) ==
  LET F1 == CHOOSE G \in {ControlsUpdate(x, delta) : x \in {F}} : TRUE
      F2 == CHOOSE G \in {PhysicsStep(x, delta) : x \in {F1}} : TRUE
      F3 == CHOOSE G \in {UpdateModels(x) : x \in {F2}} : TRUE
      F4 == CHOOSE G \in {ModelForces(x) : x \in {F3}} : TRUE
      F5 == CHOOSE G \in {BuildingForces(x) : x \in {F4}} : TRUE
      F6 == CHOOSE G \in {BuildingsUpdate(x) : x \in {F5}} : TRUE
      F7 == CHOOSE G \in {TornadoUpdate(x, delta) : x \in {F6}} : TRUE
  IN  CHOOSE G \in {IF x.threw THEN x ELSE Render(x) : x \in {F7}} : TRUE

\* the elapsed time clock.getDelta() returns, in ticks
FrameDeltas == {0, 1}

\* a plausible slip: the frame does not test animationControl.isRunning
Animate_NoPause(delta) ==
  \E F \in {RunningFrame(Frame(Cur, tornado, particles), delta)} :
    /\ updates < MaxUpdates
    /\ F.S.nextTicket <= MaxLoads
    /\ Commit(F.S)
    /\ tornado' = F.tornado
    /\ particles' = F.particles
    /\ updates' = updates + 1
    /\ lastOp' = [op |-> "animate", delta |-> delta, running |-> isRunning,
                  steps |-> F.steps, threw |-> F.threw]
    /\ UNCHANGED <<now, slots, slotVisuals, assets, destructibles, placedThenDemolished,
                   call, isRunning>>

\* one call of animate by requestAnimationFrame
Animate(delta) ==
  \E F \in {IF ~isRunning
            THEN PausedFrame(Frame(Cur, tornado, particles), delta)
            ELSE RunningFrame(Frame(Cur, tornado, particles), delta)} :
    /\ isRunning => updates < MaxUpdates
    /\ F.S.nextTicket <= MaxLoads
    /\ Commit(F.S)
    /\ tornado' = F.tornado
    /\ particles' = F.particles
    /\ updates' = IF isRunning THEN updates + 1 ELSE updates
    /\ lastOp' = [op |-> "animate", delta |-> delta, running |-> isRunning,
                  steps |-> F.steps, threw |-> F.threw]
    /\ UNCHANGED <<now, slots, slotVisuals, assets, destructibles, placedThenDemolished,
                   call, isRunning>>

\* animationFolder.add(animationControl, 'isRunning'): the checkbox
GuiIsRunning(value) ==
  /\ value # isRunning
  /\ isRunning' = value
  /\ lastOp' = [op |-> "guiIsRunning", value |-> value]
  /\ UNCHANGED <<slotVars, tornado, particles, call, updates>>

\* tornadoFolder.add(tornado.velocity, 'z', -6, 6): the values it is set to
VelocitiesZ == {-6, 0}

GuiVelocityZ(value) ==
  /\ value # tornado.velocity.z
  /\ tornado' = [tornado EXCEPT !.velocity.z = value]
  /\ lastOp' = [op |-> "guiVelocityZ", value |-> value]
  /\ UNCHANGED <<slotVars, particles, call, updates, isRunning>>

(***************************************************************************)
(* calculateForceOnObject called on a field that does not change: the     *)
(* most recent call is kept with its result.                               *)
(***************************************************************************)
\* offsets (x, z) of the query from the field centre, in tenths; each has
\* an integer length: 0, 0.1, 0.2, 5, 9, 10, 15, 15, 30, 40
QueryOffsets ==
  {<<0, 0>>, <<1, 0>>, <<2, 0>>, <<30, 40>>, <<0, -90>>, <<60, 80>>,
   <<-150, 0>>, <<150, 0>>, <<180, 240>>, <<400, 0>>}

\* height of the query above the field centre
QueryHeights == {0, 70}

Masses == {Rat(1, 2), Rat(2, 1), Rat(5, 1)}

NoCall == [objectPos |-> Vec(0, 0, 0), objectPosAfter |-> Vec(0, 0, 0),
           mass |-> RZero, made |-> FALSE,
           result |-> [force |-> RVecZero, torque |-> RVecZero]]

\* a plausible slip: const tornadoCenter = this.position, without clone():
\* tornadoCenter.y = objectPos.y then writes the field's position
FieldAfterCall_NoClone(t, objectPos) ==
  [t EXCEPT !.position.y = objectPos.y]

\* the Tornado's fields after calculateForceOnObject(objectPos, mass): the
\* vectors written are force, torque, tangential, the clone of
\* this.position (its y) and the clone of that clone (sub, normalize); no
\* field is assigned
FieldAfterCall(t, objectPos) == t

\* the argument after the call: objectPos is read (its y, and as the
\* operand of sub), never the receiver of a method that writes
ArgumentAfterCall(t, objectPos) == objectPos

CalculateForce(offset, height, mass) ==
  LET objectPos == VAdd(tornado.position, Vec(offset[1], height, offset[2]))
  IN  /\ call' = [objectPos |-> objectPos,
                   objectPosAfter |-> ArgumentAfterCall(tornado, objectPos),
                   mass |-> mass, made |-> TRUE,
                   result |-> calculateForceOnObject(tornado, objectPos, mass)]
      /\ tornado' = FieldAfterCall(tornado, objectPos)
      /\ lastOp' = [op |-> "calculateForceOnObject"]
      /\ UNCHANGED <<slotVars, particles, updates, isRunning>>

(***************************************************************************)
(* Initial states and specifications.                                      *)
(***************************************************************************)
\* after the constructors of ModelLoader and BuildingSlots and main.js's
\* addBuilding call: no slot, no building, nothing in flight
InitSlots ==
  /\ now = 0
  /\ slots = [s \in SlotIds |-> 0]
  /\ slotObjs = << >>
  /\ slotVisuals = [s \in SlotIds |-> NULL]
  /\ buildingVisuals = << >>
  /\ records = << >>
  /\ loads = {}
  /\ nextTicket = 0
  /\ issued = << >>
  /\ loadedModels = << >>
  /\ scene = {TornadoMesh}
  /\ worldBodies = {}
  /\ objPos = << >>
  /\ visible = << >>
  /\ dirty = {}
  /\ logged = {}
  /\ placedThenDemolished = {}
  /\ destructibles = << >>

\* a pool as the constructor's createGeometryAndMesh builds it
RestingPool ==
  [i \in 1..NumParticles |->
     [height |-> 0, upwardSpeed |-> 3, chaosFactor |-> Rat(2, 1),
      recycled |-> FALSE]]

\* the building registry under every content of the broken models, the
\* field standing out of reach of the slot or within the damage threshold
InitBuildings ==
  /\ InitSlots
  /\ assets \in [BuildingTypes -> 0..MaxPieces]
  /\ \E position \in TornadoPositions :
       tornado = [TornadoFields EXCEPT !.position = position]
  /\ particles = RestingPool
  /\ call = NoCall
  /\ updates = 0
  /\ isRunning = TRUE
  /\ lastOp = [op |-> "init"]

NextBuildings ==
  \/ \E slotId \in SlotIds, position \in SlotPositions : AddSlot(slotId, position)
  \/ \E slotId \in SlotIds, type \in PlaceTypes : PlaceBuilding(slotId, type)
  \/ \E slotId \in SlotIds : DemolishBuilding(slotId)
  \/ \E id \in AllBuildingIds : DamageBuilding(id)
  \/ ApplyTornadoForces
  \/ \E ld \in loads : LoadComplete(ld)
  \/ \E ld \in loads : LoadFail(ld)
  \/ Tick

SpecBuildings == InitBuildings /\ [][NextBuildings]_vars

\* the particle pool under update, setParticleCount and the GUI sliders
InitTornado ==
  /\ InitSlots
  /\ assets = [type \in BuildingTypes |-> MaxPieces]
  /\ tornado = TornadoFields
  /\ particles \in NewPools(NumParticles, TornadoFields.maxHeight)
  /\ call = NoCall
  /\ updates = 0
  /\ isRunning = TRUE
  /\ lastOp = [op |-> "init"]

NextTornado ==
  \/ \E delta \in Deltas : Update(delta)
  \/ \E count \in ParticleCounts : setParticleCount(count)
  \/ \E count \in ParticleCounts : GuiParticleCount(count)
  \/ \E value \in MaxHeights : GuiMaxHeight(value)

SpecTornado == InitTornado /\ [][NextTornado]_vars

\* the force function on every sampled field
FieldRadii     == {10 * LengthUnit, 30 * LengthUnit}
FieldStrengths == {1500, 150000}
FieldTimes     == {0, 5, 10}
FieldCentres   == {Vec(0, 0, 0), Vec(0, 0, 80 * LengthUnit)}

InitForce ==
  /\ InitSlots
  /\ assets = [type \in BuildingTypes |-> MaxPieces]
  /\ \E r \in FieldRadii, s \in FieldStrengths, t \in FieldTimes, c \in FieldCentres :
       tornado = [TornadoFields EXCEPT !.maxRadius = r, !.tornadoForceStrength = s,
                                       !.time = t, !.position = c]
  /\ particles = RestingPool
  /\ call = NoCall
  /\ updates = 0
  /\ isRunning = TRUE
  /\ lastOp = [op |-> "init"]

NextForce ==
  \E offset \in QueryOffsets, height \in QueryHeights, mass \in Masses :
    CalculateForce(offset, height, mass)

SpecForce == InitForce /\ [][NextForce]_vars

\* the frame loop over one slot: buildings are placed and demolished, loads
\* complete, the frames run or are paused
InitFrame ==
  /\ InitSlots
  /\ assets = [type \in BuildingTypes |-> MaxPieces]
  /\ \E position \in TornadoPositions :
       tornado = [TornadoFields EXCEPT !.position = position]
  /\ particles = RestingPool
  /\ call = NoCall
  /\ updates = 0
  /\ isRunning = TRUE
  /\ lastOp = [op |-> "init"]

NextFrame ==
  \/ \E slotId \in SlotIds, position \in SlotPositions : AddSlot(slotId, position)
  \/ \E slotId \in SlotIds, type \in BuildingTypes : PlaceBuilding(slotId, type)
  \/ \E slotId \in SlotIds : DemolishBuilding(slotId)
  \/ \E ld \in loads : LoadComplete(ld)
  \/ \E delta \in FrameDeltas : Animate(delta)
  \/ \E value \in BOOLEAN : GuiIsRunning(value)
  \/ \E value \in VelocitiesZ : GuiVelocityZ(value)

SpecFrame == InitFrame /\ [][NextFrame]_vars

\* where the field centre stands for the damage scan of the slot at
\* (0, 0.4, -7): 87 units away; 27 units; 15 units; at the horizontal
\* distance 30; and at a horizontal distance just below 30 (its square
\* 899.86) with the distance in space, 0.4 of height included, above 30
ScanPositions ==
  {Vec(0, 0, 80 * LengthUnit), Vec(0, 0, 20 * LengthUnit), Vec(0, 0, 80),
   Vec(0, 0, 230), Vec(105, 0, 211)}

\* the damage scan over one slot, under every field position of
\* ScanPositions and every maxRadius the GUI sets
InitScan ==
  /\ InitSlots
  /\ assets \in [BuildingTypes -> 0..MaxPieces]
  /\ \E position \in ScanPositions :
       tornado = [TornadoFields EXCEPT !.position = position]
  /\ particles = RestingPool
  /\ call = NoCall
  /\ updates = 0
  /\ isRunning = TRUE
  /\ lastOp = [op |-> "init"]

NextScan ==
  \/ \E slotId \in SlotIds, position \in SlotPositions : AddSlot(slotId, position)
  \/ \E slotId \in SlotIds, type \in BuildingTypes : PlaceBuilding(slotId, type)
  \/ \E ld \in loads : LoadComplete(ld)
  \/ ApplyTornadoForces
  \/ \E value \in MaxRadii : GuiMaxRadius(value)

SpecScan == InitScan /\ [][NextScan]_vars

\* the force application on a fragment and on placed assets: the field
\* centre 21 units from the slot, 20 from the fragment and 20 from the
\* place of the assets; one mesh piece in the broken model
InitApply ==
  /\ InitSlots
  /\ assets = [type \in BuildingTypes |-> 1]
  /\ tornado = [TornadoFields EXCEPT !.position = Vec(130, 0, 95)]
  /\ particles = RestingPool
  /\ call = NoCall
  /\ updates = 0
  /\ isRunning = TRUE
  /\ lastOp = [op |-> "init"]

NextApply ==
  \/ \E slotId \in SlotIds, position \in SlotPositions : AddSlot(slotId, position)
  \/ \E slotId \in SlotIds, type \in BuildingTypes : PlaceBuilding(slotId, type)
  \/ \E name \in DOMAIN placerAssets, position \in AssetPositions :
       PlaceAsset(name, position)
  \/ \E ld \in loads : LoadComplete(ld)
  \/ ApplyTornadoForces
  \/ ModelApplyTornadoForces
  \/ \E value \in MaxRadii : GuiMaxRadius(value)

SpecApply == InitApply /\ [][NextApply]_vars

(***************************************************************************)
(* The DestructibleSystem: destructibles are added, their models load or   *)
(* fail, and destroy and repair are called with registered and             *)
(* unregistered ids.                                                       *)
(***************************************************************************)
InitDestructible ==
  /\ InitSlots
  /\ assets = [type \in BuildingTypes |-> 1]
  /\ tornado = TornadoFields
  /\ particles = RestingPool
  /\ call = NoCall
  /\ updates = 0
  /\ isRunning = TRUE
  /\ lastOp = [op |-> "init"]

NextDestructible ==
  \/ \E id \in DestructibleIds, p \in DestructiblePositions : AddDestructible(id, p)
  \/ \E ld \in loads : LoadComplete(ld)
  \/ \E ld \in loads : LoadFail(ld)
  \/ \E id \in OperatedIds : Destroy(id)
  \/ \E id \in OperatedIds : Repair(id)

SpecDestructible == InitDestructible /\ [][NextDestructible]_vars


(***************************************************************************)
(* Properties.  Helpers over the registry first.                           *)
(***************************************************************************)
\* the record is an entry of buildingVisuals
Registered(r) == \E id \in DOMAIN buildingVisuals : buildingVisuals[id] = r

\* the loads of a broken model that damageBuilding started for record r
CrackedLoads(r) ==
  {t \in 1..Len(issued) : issued[t].kind = "cracked" /\ issued[t].rec = r}

\* the loads whose mesh pieces or piece bodies are in the scene or the
\* world for record r
FragmentTickets(r) ==
  {o.ticket : o \in {b \in worldBodies \cup scene :
                       b.kind = "piece" /\ issued[b.ticket].rec = r}}

Completed(t) == \E k \in DOMAIN loadedModels : loadedModels[k] = t

\* C1: damaging a building is idempotent.  For every building record, however
\* many damageBuilding calls and proximity scans found it registered and
\* however they interleaved with the load of the broken model: exactly one
\* such load was started once a call found it, the fragments in the scene
\* and the fragment bodies in the world come from one load, and when that
\* load has completed the record's fragment list is that load's pieces.
C1_DamageIsIdempotent ==
  \A r \in DOMAIN records :
    /\ Cardinality(CrackedLoads(r)) <= 1
    /\ Cardinality(FragmentTickets(r)) <= 1
    /\ records[r].damageCalls >= 1 => Cardinality(CrackedLoads(r)) = 1
    /\ \A t \in CrackedLoads(r) :
         Completed(t) =>
           /\ Len(records[r].crackedBodies) = assets[records[r].type]
           /\ \A i \in DOMAIN records[r].crackedBodies :
                records[r].crackedBodies[i] =
                  [mesh |-> PieceMesh(t, i), body |-> PieceBody(t, i)]

\* a registered building that damageBuilding was called on twice and whose
\* fragments exist
C1_Witness ==
  \E r \in DOMAIN records :
    /\ Registered(r)
    /\ records[r].damageCalls >= 2
    /\ Len(records[r].crackedBodies) > 0

\* C2: for every registered building the fragment list is non-empty exactly
\* when the building is damaged.
C2_FragmentsIffDamaged ==
  \A id \in DOMAIN buildingVisuals :
    LET building == records[buildingVisuals[id]]
    IN  (Len(building.crackedBodies) > 0) <=> building.damaged

\* C3: every slot object has occupied = (buildingId # null).
C3_OccupiedIffBuildingId ==
  \A ref \in DOMAIN slotObjs :
    slotObjs[ref].occupied <=> (slotObjs[ref].buildingId # NoId)

\* a slot occupied again after the building it held was demolished
C3_Witness ==
  \E r \in DOMAIN records :
    /\ records[r].demolished
    /\ slotObjs[slots[records[r].slotId]].occupied
    /\ slotObjs[slots[records[r].slotId]].buildingId # NoId

\* C4: after placeBuilding on an unoccupied slot followed at once by
\* demolishBuilding on it, the slot is unoccupied whenever no load for the
\* slot is pending.
C4_PlaceThenDemolishLeavesFree ==
  \A s \in placedThenDemolished :
    (\A ld \in loads : ld.slotId # s) => ~slotObjs[slots[s]].occupied

\* C5: after demolishBuilding on a slot whose building was placed and
\* loaded and is not damaged, neither the building's body is in the physics
\* world nor its visual in the scene, and it has no fragments.
C5_DemolishLeavesNothing ==
  (lastOp.op = "demolishBuilding" /\ lastOp.removed # 0) =>
    LET r == lastOp.removed
    IN  ~records[r].damaged =>
          /\ ModelBody(r) \notin worldBodies
          /\ ModelVisual(r) \notin scene
          /\ FragmentTickets(r) = {}

\* C6: after demolishBuilding on a slot whose building is damaged, the
\* building is out of the registry, none of its fragment bodies is in the
\* physics world and none of its fragment meshes is in the scene.
C6_DemolishRemovesFragments ==
  (lastOp.op = "demolishBuilding" /\ lastOp.removed # 0) =>
    LET r == lastOp.removed
    IN  records[r].damaged =>
          /\ ~Registered(r)
          /\ ~slotObjs[slots[lastOp.slotId]].occupied
          /\ \A i \in DOMAIN records[r].crackedBodies :
               /\ records[r].crackedBodies[i].body \notin worldBodies
               /\ records[r].crackedBodies[i].mesh \notin scene

\* C7: when the load of the broken model is rejected, the building (still
\* registered) is as before damageBuilding: not damaged, its intact visual
\* in the scene, its intact body in the world, no fragments, its slot
\* occupied; the rejection is logged.
C7_FailedLoadKeepsPriorState ==
  (lastOp.op = "loadFail" /\ issued[lastOp.ticket].kind = "cracked"
     /\ Registered(issued[lastOp.ticket].rec)) =>
    LET r == issued[lastOp.ticket].rec
    IN  /\ ~records[r].damaged
        /\ ModelVisual(r) \in scene
        /\ ModelBody(r) \in worldBodies
        /\ records[r].crackedBodies = << >>
        /\ slotObjs[slots[records[r].slotId]].occupied
        /\ lastOp.ticket \in logged

\* squared horizontal (x, z) distance of a position from the field centre
PlanarDistSq(objectPos) ==
  (objectPos.x - tornado.position.x) * (objectPos.x - tornado.position.x)
    + (objectPos.z - tornado.position.z) * (objectPos.z - tornado.position.z)

\* 0.1 < d < maxRadius for the horizontal distance d
StrictlyInside(objectPos) ==
  /\ PlanarDistSq(objectPos) < tornado.maxRadius * tornado.maxRadius
  /\ PlanarDistSq(objectPos) * 100 > LengthUnit * LengthUnit

\* C8: a call at a position whose horizontal distance from the field centre
\* is at least maxRadius, at any height and for any mass, returns zero
\* force and zero torque.
C8_ZeroOutsideRadius ==
  (call.made /\ PlanarDistSq(call.objectPos) >= tornado.maxRadius * tornado.maxRadius)
    => call.result = [force |-> RVecZero, torque |-> RVecZero]

\* a call off the field centre's height, at and beyond maxRadius
C8_Witness ==
  /\ call.made
  /\ call.objectPos.y # tornado.position.y
  /\ PlanarDistSq(call.objectPos) > tornado.maxRadius * tornado.maxRadius

\* |a| for a rational
RAbs(a) == <<Abs(a[1]), a[2]>>

\* f1 is at least as large as f2 in every component and larger in one, in
\* absolute value: then |f1| > |f2|
Exceeds(f1, f2) ==
  /\ \A c \in {"x", "y", "z"} : ~RLess(RAbs(f1[c]), RAbs(f2[c]))
  /\ \E c \in {"x", "y", "z"} : RLess(RAbs(f2[c]), RAbs(f1[c]))

\* C9: at a position strictly inside the field, the force returned for a
\* mass is strictly greater in magnitude than the force the function
\* returns at the same position for any heavier mass: no component of it is
\* smaller in absolute value and one is strictly greater.
C9_LighterMassGreaterForce ==
  \A mass2 \in Masses :
    (call.made /\ StrictlyInside(call.objectPos) /\ RLess(call.mass, mass2)) =>
      Exceeds(call.result.force,
              calculateForceOnObject(tornado, call.objectPos, mass2).force)

\* a call strictly inside the field with a mass that is not the heaviest
C9_Witness ==
  /\ call.made
  /\ StrictlyInside(call.objectPos)
  /\ \E mass2 \in Masses : RLess(call.mass, mass2)
  /\ call.result.force # RVecZero

\* C10: after every update every particle of the pool has
\* 0 <= height <= maxHeight.
C10_HeightsInRange ==
  lastOp.op = "update" =>
    \A i \in DOMAIN particles :
      particles[i].height >= 0 /\ particles[i].height <= tornado.maxHeight

\* C11: a change of the particle count through the GUI control rebuilds the
\* pool to the new count and resets time and formationTime, and at every
\* update the pool holds exactly particleCount particles.
C11_PoolMatchesCount ==
  /\ lastOp.op = "guiParticleCount" =>
        /\ Len(particles) = tornado.particleCount
        /\ tornado.time = 0
        /\ tornado.formationTime = 0
  /\ lastOp.op = "update" => Len(particles) = tornado.particleCount

\* C12: damage is one-directional.  In every step, every building record
\* that is damaged before the step is damaged after it.
C12_DamagedIsPermanent ==
  [][\A r \in DOMAIN records : records[r].damaged => records'[r].damaged]_vars

\* a damaged building was demolished and another, intact one stands
\* registered in its slot
C12_Witness ==
  \E r \in DOMAIN records, q \in DOMAIN records :
    /\ r # q
    /\ records[r].damaged /\ records[r].demolished
    /\ records[q].slotId = records[r].slotId
    /\ Registered(q) /\ ~records[q].damaged

\* C13: placeBuilding and demolishBuilding addressed to a slot id that was
\* never added return without throwing.
C13_UnknownSlotDoesNotThrow ==
  lastOp.op \in {"placeBuilding", "demolishBuilding"} => ~lastOp.threw

\* C14: a slot holds at most one building.  No two entries of
\* buildingVisuals have the same slotId, and every entry is the building
\* its slot's buildingId names.
C14_OneBuildingPerSlot ==
  /\ \A id1 \in DOMAIN buildingVisuals, id2 \in DOMAIN buildingVisuals :
        records[buildingVisuals[id1]].slotId = records[buildingVisuals[id2]].slotId
          => id1 = id2
  /\ \A id \in DOMAIN buildingVisuals :
        slotObjs[slots[records[buildingVisuals[id]].slotId]].buildingId = id

\* C15: a placeBuilding that does not succeed leaves the prior state: a
\* call with a building type that is not registered changes neither the
\* slots nor the registry nor the scene nor the physics world.
C15_FailedPlaceChangesNothing ==
  [][(lastOp'.op = "placeBuilding" /\ ~lastOp'.threw /\ ~lastOp'.started)
       => UNCHANGED <<slotObjs, buildingVisuals, scene, worldBodies>>]_vars
\* the place the frame order (a)..(g) gives to a call animate makes:
\* controls, physics step, force application, building scan, particle pool,
\* transform synchronization, render
StepOrder(step) ==
  CASE step = "controls.update"                   -> 1
    [] step = "physicsWorld.step"                 -> 2
    [] step = "modelLoader.applyTornadoForces"    -> 3
    [] step = "buildingSlots.applyTornadoForces"  -> 4
    [] step = "tornado.update"                    -> 5
    [] step = "modelLoader.updateModels"          -> 6
    [] step = "buildingSlots.update"              -> 6
    [] step = "renderer.render"                   -> 7

\* C16: in every frame run with isRunning true the calls are made in the
\* order controls, physics step, force application, building scan,
\* tornado.update, transform synchronization, render: each of the seven
\* is made, and no call is made before one that the order puts ahead of
\* it, so that every synchronization of visuals comes after the forces
\* were applied and after tornado.update.
C16_FrameOrder ==
  (lastOp.op = "animate" /\ lastOp.running /\ ~lastOp.threw) =>
    /\ {StepOrder(lastOp.steps[i]) : i \in DOMAIN lastOp.steps} = 1..7
    /\ \A i, j \in DOMAIN lastOp.steps :
         i < j => StepOrder(lastOp.steps[i]) <= StepOrder(lastOp.steps[j])

C19_ScenarioResult ==
  ( /\ call.made
    /\ tornado.position = Vec(0, 0, 0)
    /\ tornado.maxRadius = 30 * LengthUnit
    /\ tornado.tornadoForceStrength = 150000
    /\ tornado.time = 0
    /\ call.objectPos = Vec(15 * LengthUnit, 0, 0)
    /\ call.mass = Rat(5, 1) )
  => /\ call.result.force.y = RDiv(RMul(Rat(200, 1), Rat(1, 4)), call.mass)
     /\ RLess(call.result.force.x, RZero)
     /\ RLess(RZero, call.result.force.y)
     /\ RLess(RZero, call.result.torque.y)
     /\ call.result.torque.x = RZero
     /\ call.result.torque.z = RZero

\* the fragment meshes in the scene
FragmentMeshes == {o \in scene : o.kind = "piece" /\ o.cls = "Mesh"}

\* C20: every fragment the completed load of a broken model creates has its
\* body at the position of its re-centred mesh, and after every frame's
\* BuildingSlots.update() (the calls after it in the frame move no body)
\* every fragment mesh in the scene is at the position of its body.
\* Orientation is copied by the statements that copy position.
C20_FragmentsFollowBodies ==
  /\ (lastOp.op = "loadComplete" /\ issued[lastOp.ticket].kind = "cracked") =>
       \A o \in FragmentMeshes :
         o.ticket = lastOp.ticket =>
           objPos[PieceBody(o.ticket, o.index)] = objPos[o]
  /\ (lastOp.op = "animate" /\ lastOp.running) =>
       \A o \in FragmentMeshes :
         objPos[o] = objPos[PieceBody(o.ticket, o.index)]

\* C21: once a building is damaged and the load of its broken model has
\* completed, the body of its intact model is not in the physics world and
\* neither is the whole-model body ModelLoader.load created for the broken
\* model: of that building only fragment bodies are in the world.
C21_OnlyFragmentBodies ==
  \A r \in DOMAIN records :
    (records[r].damaged /\ \E t \in CrackedLoads(r) : Completed(t)) =>
      /\ ModelBody(r) \notin worldBodies
      /\ \A t \in CrackedLoads(r) : ModelBody(t) \notin worldBodies

\* C22: in every damage scan, a registered building that is not damaged
\* when the scan starts is damaged when it ends if and only if its
\* horizontal (x, z) distance from the field centre is below the damage
\* threshold of 30, whatever the difference of their heights.
C22_ScanUsesPlanarDistance ==
  [][lastOp'.op = "applyTornadoForces" =>
       \A id \in DOMAIN buildingVisuals :
         LET r == buildingVisuals[id]
         IN  ~records[r].damaged =>
               (records'[r].damaged <=>
                  PlanarDistSq(objPos[records[r].visual])
                    < (damageThreshold * LengthUnit)
                        * (damageThreshold * LengthUnit))]_vars

\* the visuals, meshes and bodies made by the loads of record r: its intact
\* model and the broken models damageBuilding requested for it
BelongsTo(o, r) ==
  /\ o.kind \in {"model", "piece"}
  /\ o.ticket = r \/ o.ticket \in CrackedLoads(r)

\* C23: once demolishBuilding has taken a building out of the registry, no
\* step adds a mesh of that building to the scene or a body of it to the
\* physics world; in particular the completion of a broken model's load
\* that was in flight during the demolition adds no fragment.
C23_NothingAddedAfterDemolition ==
  [][\A r \in DOMAIN records :
       records[r].demolished =>
         \A o \in (scene' \ scene) \cup (worldBodies' \ worldBodies) :
           ~BelongsTo(o, r)]_vars

\* what an application adds to the body's torque accumulator, result being
\* what calculateForceOnObject returned for the body
TorqueAdded(a, result) ==
  AddScaledVector(a.extraTorque, result.torque,
                  IF a.addsResultTorque THEN ROne ELSE RZero)

\* C24: in the per-frame force application of ModelLoader (loaded models)
\* and of BuildingSlots (fragments), every dynamic body on which the field
\* exerts a force has the lift applied at the body's position, the
\* horizontal part applied at the point a fixed height above it, and the
\* torque calculateForceOnObject returned added to its torque.
C24_LiftCentreHorizontalOffsetTorque ==
  lastOp.op \in {"applyTornadoForces", "modelApplyTornadoForces"} =>
    \A a \in lastOp.applications :
      LET result == calculateForceOnObject(tornado, a.objectPos, a.mass)
      IN  result.force # RVecZero =>
            /\ a.liftApplied
            /\ a.liftAt = objPos[a.body]
            /\ a.horizontalApplied
            /\ a.horizontalAt = VAdd(objPos[a.body], HorizontalOffset)
            /\ TorqueAdded(a, result) = result.torque

\* what an application adds to the body's force accumulator
ForceAdded(a, result) ==
  Vec(IF a.horizontalApplied THEN result.force.x ELSE RZero,
      IF a.liftApplied THEN result.force.y ELSE RZero,
      IF a.horizontalApplied THEN result.force.z ELSE RZero)

\* C25: in the per-frame force application of ModelLoader and of
\* BuildingSlots, a dynamic body whose horizontal distance from the field
\* centre is at least maxRadius has nothing added to its force
\* accumulator and nothing added to its torque accumulator.
C25_OutsideBodiesUntouched ==
  lastOp.op \in {"applyTornadoForces", "modelApplyTornadoForces"} =>
    \A a \in lastOp.applications :
      PlanarDistSq(a.objectPos) >= tornado.maxRadius * tornado.maxRadius =>
        LET result == calculateForceOnObject(tornado, a.objectPos, a.mass)
        IN  /\ ForceAdded(a, result) = RVecZero
            /\ TorqueAdded(a, result) = RVecZero

\* C26: the bodies of the physics world change only in a frame that runs
\* (in its force application and damage scan): no load-completion
\* callback, no handler of the building menu or of the GUI, and no paused
\* frame adds a body to the world or removes one.
C26_WorldChangesOnlyInFrames ==
  [][worldBodies' # worldBodies =>
       (lastOp'.op = "animate" /\ lastOp'.running)]_vars

\* C27: a building the damage scan marks damaged is inside the vortex: its
\* horizontal distance from the field centre is below the field's
\* maxRadius as it is when the scan runs, for every maxRadius the GUI sets.
C27_DamagedOnlyInsideVortex ==
  [][lastOp'.op = "applyTornadoForces" =>
       \A id \in DOMAIN buildingVisuals :
         LET r == buildingVisuals[id]
         IN  (~records[r].damaged /\ records'[r].damaged) =>
               PlanarDistSq(objPos[records[r].visual])
                 < tornado.maxRadius * tornado.maxRadius]_vars

\* C28: in update(delta) a particle the loop passes over is recycled if and
\* only if its advanced height, height + upwardSpeed * delta, exceeds
\* maxHeight; so an update with delta = 0 recycles no particle whose
\* height is at most maxHeight.
C28_RecycledIffAboveMaxHeight ==
  [][lastOp'.op = "update" =>
       \A i \in 1..Len(particles) :
         i <= tornado.particleCount =>
           (particles'[i].recycled <=>
              particles[i].height + particles[i].upwardSpeed * lastOp'.delta
                > tornado.maxHeight)]_vars

\* the result stated for a query at pos with mass on field t: d the
\* horizontal distance, dir the unit horizontal vector toward the centre
StatedResult(t, pos, mass) ==
  LET dx == t.position.x - pos.x
      dz == t.position.z - pos.z
      d  == Length(Vec(dx, 0, dz))
  IN  IF d >= t.maxRadius \/ d * 10 <= LengthUnit
      THEN [force |-> RVecZero, torque |-> RVecZero]
      ELSE
        LET rest      == RSub(ROne, Rat(d, t.maxRadius))
            falloff   == RMul(rest, rest)
            baseForce == RDiv(RMul(Rat(t.tornadoForceStrength, 1), falloff), mass)
            dirX      == Rat(dx, d)
            dirZ      == Rat(dz, d)
            pull      == RMul(Rat(7, 10), baseForce)
            swirl     == RMul(Rat(5, 10), baseForce)
        IN  [force |->
               Vec(RAdd(RMul(pull, dirX), RMul(swirl, RNeg(dirZ))),
                   RDiv(RMul(Rat(200, 1), falloff), mass),
                   RAdd(RMul(pull, dirZ), RMul(swirl, dirX))),
             torque |->
               Vec(RMul(RMul(SinTime2(t.time), Rat(3, 10)), baseForce),
                   RMul(Rat(12, 10), baseForce),
                   RMul(RMul(CosTime2(t.time), Rat(3, 10)), baseForce))]

\* C29: every call of calculateForceOnObject returns zero force and zero
\* torque when the horizontal distance d is at least maxRadius or at most
\* 0.1, and otherwise force = 0.7*baseForce*dir + 0.5*baseForce*(-dir.z, 0,
\* dir.x) + (0, 200*falloff/mass, 0) and torque = (sin(2*time)*0.3*baseForce,
\* 1.2*baseForce, cos(2*time)*0.3*baseForce), with falloff = (1 -
\* d/maxRadius)^2 and baseForce = tornadoForceStrength*falloff/mass; the
\* result is the one of the query moved to the height of the field centre.
C29_ForceModel ==
  call.made =>
    /\ call.result = StatedResult(tornado, call.objectPos, call.mass)
    /\ call.result =
         calculateForceOnObject(
           tornado, [call.objectPos EXCEPT !.y = tornado.position.y], call.mass)

\* a call above the centre's height, strictly inside the field, at a time
\* where all three torque components differ from zero
C29_Witness ==
  /\ call.made
  /\ StrictlyInside(call.objectPos)
  /\ call.objectPos.y # tornado.position.y
  /\ tornado.time # 0
  /\ call.result.torque.x # RZero
  /\ call.result.force.z # RZero

\* C30: for every registered destructible, after any destroy and repair
\* calls exactly one of its two visuals is visible and it matches the state
\* (state 'intact' iff the intact visual is visible and the broken one
\* hidden); a destroy of a destroyed destructible, and a destroy or repair
\* of an unknown id, change nothing; neither operation adds or removes a
\* physics body.
C30_DestructibleVisualsMatchState ==
  [][ /\ \A id \in DOMAIN destructibles' :
           LET d == destructibles'[id]
               intactShown == IsVisible(visible', d.intactData.visual)
               brokenShown == IsVisible(visible', d.brokenData.visual)
           IN  /\ intactShown # brokenShown
               /\ d.state \in {"intact", "destroyed"}
               /\ (d.state = "intact") <=> (intactShown /\ ~brokenShown)
      /\ lastOp'.op \in {"destroy", "repair"}
           => /\ worldBodies' = worldBodies
              /\ scene' = scene
              /\ lastOp'.id \notin DOMAIN destructibles
                   => /\ destructibles' = destructibles
                      /\ visible' = visible
      /\ (lastOp'.op = "destroy" /\ lastOp'.id \in DOMAIN destructibles
            /\ destructibles[lastOp'.id].state = "destroyed")
           => /\ destructibles' = destructibles
              /\ visible' = visible
    ]_vars

\* a registered destructible that is destroyed is destroyed once more
C30_Witness ==
  /\ lastOp.op = "destroy"
  /\ lastOp.known
  /\ lastOp.was = "destroyed"
  /\ destructibles[lastOp.id].state = "destroyed"
  /\ \E other \in DOMAIN destructibles : destructibles[other].state = "intact"

============================================================================
